---- MODULE Spec2Model ----
(***************************************************************************)
(* Model of fmtimports: the import block transformer in its two variants,  *)
(* the fixed four-bucket sorter (main.go: sortImports / sortDecl) and the  *)
(* regex-rule sorter (sortImports / sortImportSpecs with initRules).       *)
(*                                                                         *)
(* Strings are sequences of characters.              Positions (token.Pos)  *)
(* are integers base+offset; a file's line table is the sequence of its    *)
(* line-start offsets, as in go/token.                                     *)
(***************************************************************************)
EXTENDS Integers, Sequences, FiniteSets, TLC

VARIABLES mode, orderRule, rulePatterns, exitCode, pc, file, decls, parsed, blocks,
          src, fileSetBase, nfiles

vars == <<mode, orderRule, rulePatterns, exitCode, pc, file, decls, parsed, blocks,
          src, fileSetBase, nfiles>>

(***************************************************************************)
(* Bounds of the model.                                                    *)
(***************************************************************************)
MaxEntries == 3
MaxCustomRules == 2
MaxFiles == 2

(***************************************************************************)
(* Characters and strings.                                                 *)
(***************************************************************************)
DQ == "\""
\* the backquote character of a raw string literal, written by name
BQ == "backquote"

\* byte value of each character that occurs in the modelled paths
Ord == ( "\"" :> 34 @@ "." :> 46 @@ "/" :> 47 @@ "8" :> 56 @@ "backquote" :> 96
      @@ "a" :> 97 @@ "b" :> 98 @@ "c" :> 99 @@ "e" :> 101 @@ "f" :> 102
      @@ "g" :> 103 @@ "h" :> 104 @@ "i" :> 105 @@ "k" :> 107 @@ "m" :> 109
      @@ "n" :> 110 @@ "o" :> 111 @@ "r" :> 114 @@ "s" :> 115 @@ "t" :> 116
      @@ "u" :> 117 @@ "y" :> 121 )

\* Go's < on strings: bytewise lexicographic, a proper prefix is smaller
RECURSIVE StrLess(_, _)
StrLess(s, t) ==
    IF t = <<>> THEN FALSE
    ELSE IF s = <<>> THEN TRUE
    ELSE IF Ord[Head(s)] < Ord[Head(t)] THEN TRUE
    ELSE IF Ord[Head(s)] > Ord[Head(t)] THEN FALSE
    ELSE StrLess(Tail(s), Tail(t))

\* strings.HasPrefix(s, prefix)
HasPrefix(s, prefix) ==
    /\ Len(s) >= Len(prefix)
    /\ SubSeq(s, 1, Len(prefix)) = prefix

\* strings.Contains(s, substr)
Contains(s, substr) ==
    \E i \in 0..(Len(s) - Len(substr)) : SubSeq(s, i + 1, i + Len(substr)) = substr

\* strings.Replace(s, old, "", -1) for a one-character old
RemoveAll(s, old) == SelectSeq(s, LAMBDA c : c # old)

\* strings.Split(s, sep)[0] for a one-character sep
RECURSIVE FirstPart(_, _)
FirstPart(s, sep) ==
    IF s = <<>> \/ Head(s) = sep THEN <<>>
    ELSE <<Head(s)>> \o FirstPart(Tail(s), sep)

(***************************************************************************)
(* go/token: File and its line table.                                      *)
(***************************************************************************)
\* File.Offset(p)
Offset(f, p) == p - f.base

\* File.Pos(offset)
FilePos(f, offset) == f.base + offset

\* File.LineCount()
LineCount(f) == Len(f.lines)

\* File.Line(p) and FileSet.Position(p).Line: the last line starting at or before p
Line(f, p) == Cardinality({i \in 1..Len(f.lines) : f.lines[i] <= Offset(f, p)})

\* File.LineStart(line); the caller checks ValidLine first (LineStart panics otherwise)
ValidLine(f, line) == line >= 1 /\ line <= Len(f.lines)
LineStart(f, line) == FilePos(f, f.lines[line])

\* File.SetLines(lines): the validity test it applies before storing the table
SetLinesOK(f, lines) ==
    \A i \in 1..Len(lines) :
        /\ (i > 1 => lines[i] > lines[i - 1])
        /\ lines[i] <= f.size

SetLines(f, lines) == IF SetLinesOK(f, lines) THEN [f EXCEPT !.lines = lines] ELSE f

(***************************************************************************)
(* go/ast: ImportSpec and GenDecl positions.                               *)
(***************************************************************************)
\* ImportSpec.Pos()
SpecPos(s) == IF s.Name # <<>> THEN s.NamePos ELSE s.ValuePos

\* ImportSpec.End()
SpecEnd(s) == IF s.EndPos # 0 THEN s.EndPos ELSE s.ValuePos + Len(s.Path)

\* GenDecl.Pos()
DeclPos(d) == d.TokPos

\* GenDecl.End()
DeclEnd(d) == IF d.Rparen # 0 THEN d.Rparen + 1 ELSE SpecEnd(d.Specs[1])

(***************************************************************************)
(* Source files given to the program.  A file is "package p", then import  *)
(* declarations, then optionally one other declaration; every line ends    *)
(* with a newline.                                                         *)
(***************************************************************************)
Q(s) == <<DQ>> \o s \o <<DQ>>

PathFmt == Q(<<"f", "m", "t">>)
PathGithub == Q(<<"g", "i", "t", "h", "u", "b", ".", "c", "o", "m", "/", "a">>)
PathGithubB == Q(<<"g", "i", "t", "h", "u", "b", ".", "c", "o", "m", "/", "b">>)
PathK8sA == Q(<<"k", "8", "s", ".", "i", "o", "/", "a">>)
PathKubernetes == Q(<<"k", "8", "s", ".", "i", "o", "/", "k", "u", "b", "e", "r", "n", "e", "t", "e", "s">>)
PathSigs == Q(<<"s", "i", "g", "s", ".", "k", "8", "s", ".", "i", "o", "/", "y">>)
\* an import path written as a raw string literal: `os`
PathRawOs == <<BQ, "o", "s", BQ>>

\* the import entries a block is drawn from: optional name (alias) and path literal
Entries ==
    { [Name |-> <<>>, Path |-> PathFmt],
      [Name |-> <<>>, Path |-> PathGithubB],
      [Name |-> <<>>, Path |-> PathGithub],
      [Name |-> <<"k">>, Path |-> PathK8sA],
      [Name |-> <<>>, Path |-> PathKubernetes],
      [Name |-> <<>>, Path |-> PathSigs],
      [Name |-> <<>>, Path |-> PathRawOs] }

\* the entries of a block: none (import ()), or up to MaxEntries
EntrySeqs == UNION {[1..n -> Entries] : n \in 0..MaxEntries}

\* import ( ... ) with any entries, or import "path" without parentheses
ImportShapes ==
    {[paren |-> TRUE, entries |-> es] : es \in EntrySeqs}
    \cup {[paren |-> FALSE, entries |-> <<e>>] : e \in Entries}

PlainImport == [paren |-> FALSE, entries |-> <<[Name |-> <<>>, Path |-> PathFmt]>>]

\* indentation of the entry lines of a block: none, or one tab
Indents == {0, 1}

\* one import declaration, or a plain import followed by a block of two entries
Layouts ==
    [ indent : Indents,
      imports : {<<sh>> : sh \in ImportShapes}
                \cup {<<PlainImport, [paren |-> TRUE, entries |-> es]>> :
                         es \in [1..2 -> Entries]},
      tail : BOOLEAN ]

PackageClause == <<"p", "a", "c", "k", "a", "g", "e", " ", "p">>
ImportKw == <<"i", "m", "p", "o", "r", "t">>
VarDecl == <<"v", "a", "r", " ", "x", " ", "i", "n", "t">>

\* the files of a run with several path arguments: an indented block of two entries
FileLayouts ==
    [ indent : {1},
      imports : {<<[paren |-> TRUE, entries |-> es]>> : es \in [1..2 -> Entries]},
      tail : BOOLEAN ]

\* no source read yet
NoSrc == [indent |-> 0, imports |-> <<>>, tail |-> FALSE]

\* text of one entry: [name + space] + path
EntryLen(e) == (IF e.Name # <<>> THEN Len(e.Name) + 1 ELSE 0) + Len(e.Path)

\* the ImportSpec the parser builds for entry e whose text starts at offset off
MkSpec(e, id, base, off) ==
    [ id |-> id, Name |-> e.Name, Path |-> e.Path,
      NamePos |-> IF e.Name # <<>> THEN base + off ELSE 0,
      ValuePos |-> base + off + (IF e.Name # <<>> THEN Len(e.Name) + 1 ELSE 0),
      EndPos |-> 0 ]

\* the entry lines of a block, added to acc: the specs, the line starts, and
\* the offset after the last line
RECURSIVE ParseSpecs(_, _, _, _)
ParseSpecs(es, base, indent, acc) ==
    IF es = <<>> THEN acc
    ELSE ParseSpecs(Tail(es), base, indent,
                    [ Specs |-> acc.Specs
                                \o <<MkSpec(Head(es), Len(acc.Specs) + 1, base, acc.off + indent)>>,
                      lines |-> acc.lines \o <<acc.off>>,
                      off |-> acc.off + indent + EntryLen(Head(es)) + 1 ])

\* import ( ... ) starting at offset off, body being its entry lines
ParenImport(base, off, body) ==
    [ decl |-> [ Tok |-> "import", TokPos |-> base + off,
                 Lparen |-> base + off + Len(ImportKw) + 1,
                 Rparen |-> base + body.off, Specs |-> body.Specs ],
      lines |-> <<off>> \o body.lines \o <<body.off>>,
      off |-> body.off + 2 ]

\* import "path" starting at offset off
BareImport(e, base, off) ==
    [ decl |-> [ Tok |-> "import", TokPos |-> base + off, Lparen |-> 0, Rparen |-> 0,
                 Specs |-> <<MkSpec(e, 1, base, off + Len(ImportKw) + 1)>> ],
      lines |-> <<off>>,
      off |-> off + Len(ImportKw) + 1 + EntryLen(e) + 1 ]

\* one import declaration starting at offset off (a line start)
ParseImport(sh, base, off, indent) ==
    IF sh.paren
    THEN ParenImport(base, off,
                     ParseSpecs(sh.entries, base, indent,
                                [Specs |-> <<>>, lines |-> <<>>, off |-> off + Len(ImportKw) + 3]))
    ELSE BareImport(sh.entries[1], base, off)

AddDecl(acc, d) ==
    [decls |-> acc.decls \o <<d.decl>>, lines |-> acc.lines \o d.lines, off |-> d.off]

RECURSIVE ParseImports(_, _, _, _)
ParseImports(shs, base, indent, acc) ==
    IF shs = <<>> THEN acc
    ELSE ParseImports(Tail(shs), base, indent,
                      AddDecl(acc, ParseImport(Head(shs), base, acc.off, indent)))

\* the token.File and the declarations, imps being the parsed import declarations
ParsedFile(l, base, imps) ==
    [ file |-> [ base |-> base,
                 size |-> imps.off + (IF l.tail THEN Len(VarDecl) + 1 ELSE 0),
                 lines |-> <<0>> \o imps.lines
                           \o (IF l.tail THEN <<imps.off>> ELSE <<>>) ],
      decls |-> imps.decls
                \o (IF l.tail
                    THEN <<[ Tok |-> "var", TokPos |-> base + imps.off,
                             Lparen |-> 0, Rparen |-> 0, Specs |-> <<>> ]>>
                    ELSE <<>>) ]

\* parser.ParseFile(fileSet, filename, src, parserMode) on the text of layout l:
\* the token.File added to the file set and the declarations of the ast.File
ParseFile(l, base) ==
    ParsedFile(l, base,
               ParseImports(l.imports, base, l.indent,
                            [decls |-> <<>>, lines |-> <<>>, off |-> Len(PackageClause) + 1]))

(***************************************************************************)
(* main.go: the fixed four-bucket transformer.                             *)
(***************************************************************************)
LocalRoot == <<"k", "8", "s", ".", "i", "o", "/", "k", "u", "b", "e", "r", "n", "e", "t", "e", "s">>
K8sToken == <<"k", "8", "s", ".", "i", "o">>

\* classify with the k8s.io test placed before the local-root test
classifyTokenFirst(imp) ==
    LET importPath == RemoveAll(imp.Path, DQ)
        parts0 == FirstPart(importPath, "/")
    IN  IF ~Contains(parts0, <<".">>) THEN "stdlib"
        ELSE IF Contains(parts0, K8sToken) THEN "k8s"
        ELSE IF HasPrefix(importPath, LocalRoot) THEN "local"
        ELSE "external"

\* the bucket sortDecl appends an import spec to
classify(imp) ==
    LET importPath == RemoveAll(imp.Path, DQ)
        parts0 == FirstPart(importPath, "/")
    IN  IF ~Contains(parts0, <<".">>) THEN "stdlib"
        ELSE IF HasPrefix(importPath, LocalRoot) THEN "local"
        ELSE IF Contains(parts0, K8sToken) THEN "k8s"
        ELSE "external"

\* the buckets listed with k8s.io before external
GroupOrderSwapped == <<"stdlib", "k8s", "external", "local">>

\* the order in which sortDecl emits the buckets
GroupOrder == <<"stdlib", "external", "k8s", "local">>

\* less written with <= instead of <
lessOrEqual(a, b) == ~StrLess(b.Path, a.Path)

\* the less function given to sort.SliceStable
less(a, b) == StrLess(a.Path, b.Path)

InsertAt(sorted, x, p) ==
    SubSeq(sorted, 1, p) \o <<x>> \o SubSeq(sorted, p + 1, Len(sorted))

\* insertion that places an element before the elements it ties with
InsertBeforeTies(sorted, x) ==
    InsertAt(sorted, x, Cardinality({j \in 1..Len(sorted) : less(sorted[j], x)}))

\* sort.SliceStable(gImps, less): stable insertion sort
InsertStable(sorted, x) ==
    InsertAt(sorted, x, Cardinality({j \in 1..Len(sorted) : ~less(x, sorted[j])}))

RECURSIVE SliceStableFrom(_, _)
SliceStableFrom(sorted, rest) ==
    IF rest = <<>> THEN sorted
    ELSE SliceStableFrom(InsertStable(sorted, Head(rest)), Tail(rest))

SliceStable(gImps) == SliceStableFrom(<<>>, gImps)

\* the new span written into an import spec placed at offset
Respan(imp, offset) ==
    [imp EXCEPT !.NamePos = IF imp.Name # <<>> THEN offset + 1 ELSE @,
                !.ValuePos = offset + 1,
                !.EndPos = (offset + 1) + (SpecEnd(imp) - SpecPos(imp))]

\* one pass of the inner loop of sortDecl: imp, respanned, is bucket g's next spec
place(lay, g, imp) ==
    [ Specs |-> lay.Specs \o <<imp>>,
      impLines |-> lay.impLines \o <<lay.offset>>,
      groups |-> lay.groups \o <<g>>,
      offset |-> imp.EndPos ]

\* inner loop of sortDecl over the sorted bucket g
RECURSIVE layoutGroup(_, _, _)
layoutGroup(gImps, g, lay) ==
    IF gImps = <<>> THEN lay
    ELSE layoutGroup(Tail(gImps), g, place(lay, g, Respan(Head(gImps), lay.offset)))

\* "add blank lines": the slot after a bucket of n specs
blankLine(lay, n) ==
    IF n # 0
    THEN [lay EXCEPT !.impLines = @ \o <<lay.offset>>, !.offset = @ + 1]
    ELSE lay

\* one pass of the outer loop of sortDecl, gImps being bucket g sorted
layoutBucket(gImps, g, lay) == blankLine(layoutGroup(gImps, g, lay), Len(gImps))

\* outer loop of sortDecl over the buckets from rank g on
RECURSIVE layoutGroups(_, _, _)
layoutGroups(specs, g, lay) ==
    IF g > Len(GroupOrder) THEN lay
    ELSE layoutGroups(specs, g + 1,
                      layoutBucket(SliceStable(SelectSeq(specs,
                                       LAMBDA sp : classify(sp) = GroupOrder[g])),
                                   g, lay))

\* the line table sortDecl hands to SetLines
spliceLines(f, first, impLines, last) ==
    [i \in 1..first |-> f.lines[i]]
    \o impLines
    \o [i \in 1..(IF last > LineCount(f) THEN 0 ELSE LineCount(f) - last + 1) |-> f.lines[last + i - 1]]

\* what a block transformer returns and leaves behind: the returned specs, the
\* file after SetLines(lines), and the values of its locals
Returned(f, specs, impLines, groups, lines) ==
    [ panic |-> FALSE, Specs |-> specs, file |-> SetLines(f, lines),
      impLines |-> impLines, groups |-> groups,
      lines |-> lines, accepted |-> SetLinesOK(f, lines) ]

\* a block transformer that panicked, the specs left as they then were
Panicked(f, specs, impLines, groups) ==
    [ panic |-> TRUE, Specs |-> specs, file |-> f, impLines |-> impLines,
      groups |-> groups, lines |-> <<>>, accepted |-> FALSE ]

\* second half of sortDecl: the line table, lay being the result of the loops
relineDecl(f, d, lay) ==
    Returned(f, lay.Specs, lay.impLines, lay.groups,
             spliceLines(f, Line(f, DeclPos(d)), lay.impLines, Line(f, DeclEnd(d)) + 1))

\* sortDecl(fSet, d); File.LineStart panics when no line follows the line of "import ("
sortDecl(f, d) ==
    IF ~ValidLine(f, Line(f, DeclPos(d)) + 1)
    THEN Panicked(f, d.Specs, <<>>, <<>>)
    ELSE relineDecl(f, d,
                    layoutGroups(d.Specs, 1,
                                 [ Specs |-> <<>>, impLines |-> <<>>, groups |-> <<>>,
                                   offset |-> Offset(f, LineStart(f, Line(f, DeclPos(d)) + 1)) ]))

(***************************************************************************)
(* The regex-rule transformer: rules, initRules and sortImportSpecs.       *)
(***************************************************************************)
StdlibRule == "^\"\\w*\"$"
CatchAllRule == "^\".*\"$"
GithubRule == "^\"github.*\"$"
K8sRule == "^\"k8s.*\"$"
\* a pattern that does not compile: missing closing parenthesis
BadRule == "^\"k8s(.*\"$"

\* the patterns a caller may pass in -r
CustomRules == {GithubRule, K8sRule, BadRule}

\* values of the -r flag, as the list strings.Split(*orderRule, " ") yields
\* (the empty list for the empty flag)
OrderRules == UNION {[1..n -> CustomRules] : n \in 0..MaxCustomRules}

Lit(c) == [cls |-> "lit", ch |-> c, star |-> FALSE]
Star(cls) == [cls |-> cls, ch |-> "", star |-> TRUE]
LitSeq(cs) == [i \in 1..Len(cs) |-> Lit(cs[i])]

\* a nil *regexp.Regexp
Nil == [nil |-> TRUE, src |-> "", prog |-> <<>>]

\* regexp.Compile(r): the program of each modelled pattern (all are anchored
\* by ^ and $), or nil when the pattern has a syntax error
Compile(r) ==
    CASE r = StdlibRule -> [nil |-> FALSE, src |-> r,
                            prog |-> <<Lit(DQ), Star("word"), Lit(DQ)>>]
      [] r = CatchAllRule -> [nil |-> FALSE, src |-> r,
                              prog |-> <<Lit(DQ), Star("any"), Lit(DQ)>>]
      [] r = GithubRule -> [nil |-> FALSE, src |-> r,
                            prog |-> <<Lit(DQ)>> \o LitSeq(<<"g", "i", "t", "h", "u", "b">>)
                                     \o <<Star("any"), Lit(DQ)>>]
      [] r = K8sRule -> [nil |-> FALSE, src |-> r,
                         prog |-> <<Lit(DQ)>> \o LitSeq(<<"k", "8", "s">>)
                                  \o <<Star("any"), Lit(DQ)>>]
      [] OTHER -> Nil

\* the characters \w matches: [0-9A-Za-z_]
WordChars == {"8", "a", "b", "c", "e", "f", "g", "h", "i", "k", "m", "n", "o",
              "r", "s", "t", "u", "y"}

\* one pattern atom against one character
AtomMatches(a, c) ==
    CASE a.cls = "lit" -> c = a.ch
      [] a.cls = "word" -> c \in WordChars
      [] a.cls = "any" -> c # "\n"

RECURSIVE MatchAtoms(_, _)
MatchAtoms(atoms, str) ==
    IF atoms = <<>> THEN str = <<>>
    ELSE LET a == Head(atoms)
         IN  IF a.star
             THEN \/ MatchAtoms(Tail(atoms), str)
                  \/ (str # <<>> /\ AtomMatches(a, Head(str)) /\ MatchAtoms(atoms, Tail(str)))
             ELSE str # <<>> /\ AtomMatches(a, Head(str)) /\ MatchAtoms(Tail(atoms), Tail(str))

\* pattern.MatchString(str) for a non-nil pattern
MatchString(pattern, str) == MatchAtoms(pattern.prog, str)

\* the list of rules initRules compiles
rulesStr(flag) == <<StdlibRule>> \o flag \o <<CatchAllRule>>

\* the nested loops without the specMatched test: a later rule takes a spec again
RECURSIVE matchLoopNoSkip(_, _, _, _, _)
matchLoopNoSkip(patterns, poses, st, pi, si) ==
    IF pi > Len(patterns) THEN st
    ELSE IF si > Len(st.specs)
    THEN matchLoopNoSkip(patterns, poses,
                         [st EXCEPT !.importLines = @ \o <<st.startOffset>>,
                                    !.startOffset = @ + 1],
                         pi + 1, 1)
    ELSE IF patterns[pi].nil THEN [st EXCEPT !.panic = TRUE]
    ELSE IF MatchString(patterns[pi], st.specs[si].Path)
    THEN LET iSpec == st.specs[si]
             sPos == st.startOffset + 1
             ePos == sPos + (poses[si].End - poses[si].Start)
             moved == [iSpec EXCEPT !.NamePos = IF iSpec.Name # <<>> THEN sPos ELSE @,
                                    !.ValuePos = sPos,
                                    !.EndPos = ePos]
         IN  matchLoopNoSkip(patterns, poses,
                             [st EXCEPT !.specMatched[si] = TRUE,
                                        !.importLines = @ \o <<st.startOffset>>,
                                        !.specs[si] = moved,
                                        !.specsRes = @ \o <<moved>>,
                                        !.groups = @ \o <<pi>>,
                                        !.startOffset = ePos],
                             pi, si + 1)
    ELSE matchLoopNoSkip(patterns, poses, st, pi, si + 1)

\* the two nested loops of sortImportSpecs, from pattern pi and spec si on.
\* st.specs are the specs in input order (mutated in place), st.specsRes the
\* result list, st.groups the rule index of each result.
RECURSIVE matchLoop(_, _, _, _, _)
matchLoop(patterns, poses, st, pi, si) ==
    IF pi > Len(patterns) THEN st
    ELSE IF si > Len(st.specs)
    THEN matchLoop(patterns, poses,
                   [st EXCEPT !.importLines = @ \o <<st.startOffset>>,
                              !.startOffset = @ + 1],
                   pi + 1, 1)
    ELSE IF st.specMatched[si] THEN matchLoop(patterns, poses, st, pi, si + 1)
    ELSE IF patterns[pi].nil THEN [st EXCEPT !.panic = TRUE]
    ELSE IF MatchString(patterns[pi], st.specs[si].Path)
    THEN LET iSpec == st.specs[si]
             sPos == st.startOffset + 1
             ePos == sPos + (poses[si].End - poses[si].Start)
             moved == [iSpec EXCEPT !.NamePos = IF iSpec.Name # <<>> THEN sPos ELSE @,
                                    !.ValuePos = sPos,
                                    !.EndPos = ePos]
         IN  matchLoop(patterns, poses,
                       [st EXCEPT !.specMatched[si] = TRUE,
                                  !.importLines = @ \o <<st.startOffset>>,
                                  !.specs[si] = moved,
                                  !.specsRes = @ \o <<moved>>,
                                  !.groups = @ \o <<pi>>,
                                  !.startOffset = ePos],
                       pi, si + 1)
    ELSE matchLoop(patterns, poses, st, pi, si + 1)

\* the line table sortImportSpecs hands to SetLines
importSplice(f, startLineIndex, importLines, endLineIndex) ==
    [i \in 1..startLineIndex |-> f.lines[i]]
    \o importLines
    \o [i \in 1..(IF endLineIndex > LineCount(f) THEN 0
                  ELSE LineCount(f) - endLineIndex + 1) |-> f.lines[endLineIndex + i - 1]]

\* the spans of the specs before the loops: poses
Poses(specs) ==
    [i \in 1..Len(specs) |-> [Start |-> SpecPos(specs[i]), End |-> SpecEnd(specs[i])]]

\* second half of sortImportSpecs: the line table, st being the result of the
\* loops; after a panic the specs stay as the loops left them
relineSpecs(f, importPos, st) ==
    IF st.panic
    THEN Panicked(f, st.specs, st.importLines, st.groups)
    ELSE Returned(f, st.specsRes, st.importLines, st.groups,
                  importSplice(f, Line(f, importPos.Start), st.importLines,
                               Line(f, importPos.End)))

\* sortImportSpecs(fSet, astFile, specs, importPos) under the global rulePatterns
sortImportSpecs(f, specs, importPos) ==
    relineSpecs(f, importPos,
                matchLoop(rulePatterns, Poses(specs),
                          [ specs |-> specs, specsRes |-> <<>>, groups |-> <<>>,
                            specMatched |-> [i \in 1..Len(specs) |-> FALSE],
                            importLines |-> <<>>,
                            startOffset |-> Offset(f, importPos.Start) + 1,
                            panic |-> FALSE ],
                          1, 1))

(***************************************************************************)
(* The drivers.  blocks[i] records, for declaration i of the file, whether *)
(* the loop of sortImports looked at it, whether it was handed to the      *)
(* block transformer, and what the transformer computed.                   *)
(***************************************************************************)
NoBlock == [visited |-> FALSE, sorted |-> FALSE, impLines |-> <<>>, groups |-> <<>>,
            lines |-> <<>>, accepted |-> FALSE]

Visited == [NoBlock EXCEPT !.visited = TRUE]

Sorted(r) == [visited |-> TRUE, sorted |-> TRUE, impLines |-> r.impLines,
              groups |-> r.groups, lines |-> r.lines, accepted |-> r.accepted]

\* d.Specs = <block transformer>(...) for declaration i, r being what it returned
assign(acc, i, r) ==
    [ file |-> r.file,
      decls |-> [acc.decls EXCEPT ![i].Specs = r.Specs],
      blocks |-> [acc.blocks EXCEPT ![i] = Sorted(r)],
      panic |-> r.panic ]

skip(acc, i) == [acc EXCEPT !.blocks[i] = Visited]

\* the driver loop with the test len(d.Specs) <= 1 written as < 1
RECURSIVE sortImportsFixedOffByOne(_, _)
sortImportsFixedOffByOne(acc, i) ==
    IF i > Len(acc.decls) \/ acc.panic THEN acc
    ELSE IF acc.decls[i].Tok # "import" THEN acc
    ELSE IF acc.decls[i].Lparen = 0 THEN sortImportsFixedOffByOne(skip(acc, i), i + 1)
    ELSE IF Len(acc.decls[i].Specs) < 1 THEN sortImportsFixedOffByOne(skip(acc, i), i + 1)
    ELSE sortImportsFixedOffByOne(assign(acc, i, sortDecl(acc.file, acc.decls[i])), i + 1)

\* main.go sortImports(fset, f), from declaration i on; a panic ends it
RECURSIVE sortImportsFixed(_, _)
sortImportsFixed(acc, i) ==
    IF i > Len(acc.decls) \/ acc.panic THEN acc
    ELSE IF acc.decls[i].Tok # "import" THEN acc
    ELSE IF acc.decls[i].Lparen = 0 THEN sortImportsFixed(skip(acc, i), i + 1)
    ELSE IF Len(acc.decls[i].Specs) <= 1 THEN sortImportsFixed(skip(acc, i), i + 1)
    ELSE sortImportsFixed(assign(acc, i, sortDecl(acc.file, acc.decls[i])), i + 1)

\* the regex variant's sortImports(fset, f), from declaration i on; a panic ends it
RECURSIVE sortImportsRegex(_, _)
sortImportsRegex(acc, i) ==
    IF i > Len(acc.decls) \/ acc.panic THEN acc
    ELSE IF acc.decls[i].Tok # "import" THEN acc
    ELSE IF acc.decls[i].Lparen = 0 THEN sortImportsRegex(skip(acc, i), i + 1)
    ELSE IF Len(acc.decls[i].Specs) <= 1 THEN sortImportsRegex(skip(acc, i), i + 1)
    ELSE sortImportsRegex(
             assign(acc, i,
                    sortImportSpecs(acc.file, acc.decls[i].Specs,
                                    [Start |-> DeclPos(acc.decls[i]), End |-> DeclEnd(acc.decls[i])])),
             i + 1)

\* the state sortImports starts from: the parsed file, nothing looked at yet
Acc0(p) == [file |-> p.file, decls |-> p.decls,
            blocks |-> [i \in 1..Len(p.decls) |-> NoBlock], panic |-> FALSE]

NoFile == [base |-> 0, size |-> 0, lines |-> <<>>]

(***************************************************************************)
(* The state machine.  src is the text processFile read, file and decls    *)
(* are the token.File and the declarations when sortImports has returned   *)
(* (or panicked); parsed is what parser.ParseFile had returned.            *)
(* fileSetBase is the base the regex variant's process-wide FileSet gives  *)
(* its next file, nfiles the number of files processed.                    *)
(***************************************************************************)
Init ==
    /\ mode \in {"fixed", "regex"}
    /\ orderRule \in (IF mode = "regex" THEN OrderRules ELSE {<<>>})
    /\ rulePatterns = <<>>
    /\ exitCode = 0
    /\ pc = IF mode = "regex" THEN "start" ELSE "ready"
    /\ file = NoFile
    /\ decls = <<>>
    /\ parsed = [file |-> NoFile, decls |-> <<>>]
    /\ blocks = <<>>
    /\ src = NoSrc
    /\ fileSetBase = 1
    /\ nfiles = 0

\* initRules(): compile the standard-library rule, the -r rules and the catch-all
InitRules ==
    /\ mode = "regex"
    /\ pc = "start"
    /\ rulePatterns' = rulePatterns
                       \o [i \in 1..Len(rulesStr(orderRule)) |-> Compile(rulesStr(orderRule)[i])]
    /\ pc' = "ready"
    /\ UNCHANGED <<mode, orderRule, exitCode, file, decls, parsed, blocks,
                   src, fileSetBase, nfiles>>

\* main.go processFile on a source of srcs, through the call of sortImports:
\* a fresh FileSet per file, whose first file has base 1
processFileFixed(srcs) ==
    /\ mode = "fixed"
    /\ pc = "ready"
    /\ \E l \in srcs :
          \E p \in {ParseFile(l, 1)} :
             \E r \in {sortImportsFixed(Acc0(p), 1)} :
                /\ src' = l
                /\ parsed' = p
                /\ file' = r.file
                /\ decls' = r.decls
                /\ blocks' = r.blocks
                /\ pc' = IF r.panic THEN "panic" ELSE "done"
    /\ nfiles' = nfiles + 1
    /\ UNCHANGED <<mode, orderRule, rulePatterns, exitCode, fileSetBase>>

\* the regex variant's processFile on a source of srcs, through the call of
\* sortImports: the file is added to the process-wide FileSet at its base,
\* which moves past the file (base + size + 1)
processFileRegex(srcs) ==
    /\ mode = "regex"
    /\ pc = "ready"
    /\ \E l \in srcs :
          \E p \in {ParseFile(l, fileSetBase)} :
             \E r \in {sortImportsRegex(Acc0(p), 1)} :
                /\ src' = l
                /\ parsed' = p
                /\ file' = r.file
                /\ decls' = r.decls
                /\ blocks' = r.blocks
                /\ pc' = IF r.panic THEN "panic" ELSE "done"
                /\ fileSetBase' = fileSetBase + p.file.size + 1
    /\ nfiles' = nfiles + 1
    /\ UNCHANGED <<mode, orderRule, rulePatterns, exitCode>>

\* a run on one file
ProcessFileFixed == processFileFixed(Layouts)

ProcessFileRegex == processFileRegex(Layouts)

Next == InitRules \/ ProcessFileFixed \/ ProcessFileRegex

Spec == Init /\ [][Next]_vars

\* gofmtMain's loop over the path arguments: processFile has returned and its
\* locals are gone; the rules and the process-wide FileSet stay
NextArg ==
    /\ pc = "done"
    /\ nfiles < MaxFiles
    /\ pc' = "ready"
    /\ file' = NoFile
    /\ decls' = <<>>
    /\ parsed' = [file |-> NoFile, decls |-> <<>>]
    /\ blocks' = <<>>
    /\ src' = NoSrc
    /\ UNCHANGED <<mode, orderRule, rulePatterns, exitCode, fileSetBase, nfiles>>

\* a run on up to MaxFiles files
ProcessArgFixed == processFileFixed(FileLayouts)

ProcessArgRegex == processFileRegex(FileLayouts)

NextFiles == InitRules \/ ProcessArgFixed \/ ProcessArgRegex \/ NextArg

SpecFiles == Init /\ [][NextFiles]_vars

(***************************************************************************)
(* Vocabulary of the properties.                                           *)
(***************************************************************************)
\* the block transformer was called on declaration i and has returned
Transformed(i) == pc = "done" /\ i \in 1..Len(blocks) /\ blocks[i].sorted

TransformedBlocks == {i \in 1..Len(blocks) : Transformed(i)}

\* entries of block i as parsed, and as returned by the transformer
In(i) == parsed.decls[i].Specs
Out(i) == decls[i].Specs

\* an import declaration the driver is to transform
Qualifies(d) == d.Tok = "import" /\ d.Lparen # 0 /\ Len(d.Specs) > 1

\* the pattern is compiled and matches the path literal
Matches(pattern, path) == ~pattern.nil /\ MatchString(pattern, path)

\* index of the first rule that matches the path literal, 0 if none does
FirstMatch(path) ==
    LET hits == {r \in 1..Len(rulePatterns) : Matches(rulePatterns[r], path)}
    IN  IF hits = {} THEN 0 ELSE CHOOSE r \in hits : \A q \in hits : r <= q

\* number of returned entries of block i that are input entry k
Copies(i, k) == Cardinality({j \in 1..Len(Out(i)) : Out(i)[j].id = k})

\* C1: the entries returned for a transformed block are a permutation of its
\* input entries: every input entry is returned exactly once, with its name and
\* path, in both the fixed-bucket and the regex-rule variant.
C1_Permutation ==
    \A i \in TransformedBlocks :
        /\ Len(Out(i)) = Len(In(i))
        /\ \A k \in 1..Len(In(i)) : Copies(i, k) = 1
        /\ \A j \in 1..Len(Out(i)) :
              /\ Out(i)[j].id \in 1..Len(In(i))
              /\ Out(i)[j].Path = In(i)[Out(i)[j].id].Path
              /\ Out(i)[j].Name = In(i)[Out(i)[j].id].Name

\* C2: in the regex variant every entry some rule matches is returned exactly
\* once, in the group of the first rule of [stdlib, caller rules, catch-all]
\* that matches its path literal, and in no later rule's group.
C2_FirstMatchWins ==
    \A i \in TransformedBlocks :
        mode = "regex" =>
            /\ \A j \in 1..Len(Out(i)) :
                  /\ blocks[i].groups[j] = FirstMatch(Out(i)[j].Path)
                  /\ blocks[i].groups[j] # 0
            /\ \A k \in 1..Len(In(i)) :
                  FirstMatch(In(i)[k].Path) # 0 => Copies(i, k) = 1

\* an entry matched by a caller rule and by the catch-all was placed by the caller rule
C2_Witness ==
    \E i \in TransformedBlocks :
        /\ mode = "regex"
        /\ \E j \in 1..Len(Out(i)) :
              /\ blocks[i].groups[j] > 1
              /\ blocks[i].groups[j] < Len(rulePatterns)
              /\ Matches(rulePatterns[Len(rulePatterns)], Out(i)[j].Path)

\* the reference rule of the four buckets on a path literal; the token test
\* is given as a parameter: equality of the first segment, or containment
FirstSlash(str) ==
    IF \E n \in 1..Len(str) : str[n] = "/"
    THEN CHOOSE n \in 1..Len(str) : str[n] = "/" /\ \A m \in 1..(n - 1) : str[m] # "/"
    ELSE Len(str) + 1

RefBucket(path, TokenTest(_)) ==
    LET unq == SelectSeq(path, LAMBDA c : c # DQ)
        seg == SubSeq(unq, 1, FirstSlash(unq) - 1)
    IN  IF \A n \in 1..Len(seg) : seg[n] # "." THEN "stdlib"
        ELSE IF Len(unq) >= Len(LocalRoot) /\ \A n \in 1..Len(LocalRoot) : unq[n] = LocalRoot[n]
        THEN "local"
        ELSE IF TokenTest(seg) THEN "k8s"
        ELSE "external"

SegEqualsToken(seg) == seg = K8sToken

SegContainsToken(seg) ==
    \E n \in 1..Len(seg) :
        /\ n + Len(K8sToken) - 1 <= Len(seg)
        /\ \A m \in 1..Len(K8sToken) : seg[n + m - 1] = K8sToken[m]

\* the bucket the fixed variant emitted returned entry j of block i in
EmittedBucket(i, j) == GroupOrder[blocks[i].groups[j]]

\* C3 as stated: ecosystem bucket iff the first segment EQUALS "k8s.io"
C3_EqualsToken ==
    \A i \in TransformedBlocks :
        mode = "fixed" =>
            \A j \in 1..Len(Out(i)) :
                EmittedBucket(i, j) = RefBucket(Out(i)[j].Path, SegEqualsToken)

\* C3 as amended: standard library iff the first segment of the path literal
\* without its double quotes has no dot; else local iff that string starts with
\* "k8s.io/kubernetes"; else ecosystem iff the first segment CONTAINS "k8s.io";
\* else external.
C3_ContainsToken ==
    \A i \in TransformedBlocks :
        mode = "fixed" =>
            \A j \in 1..Len(Out(i)) :
                EmittedBucket(i, j) = RefBucket(Out(i)[j].Path, SegContainsToken)

\* a sub-domain of k8s.io (sigs.k8s.io/y) was emitted in the ecosystem bucket
C3_Witness ==
    \E i \in TransformedBlocks :
        /\ mode = "fixed"
        /\ \E j \in 1..Len(Out(i)) :
              /\ Out(i)[j].Path = PathSigs
              /\ EmittedBucket(i, j) = "k8s"

\* rank of an entry's group: the position of its bucket in the order standard
\* library, external, k8s.io, local; or the index of its first matching rule
BucketRank == ("stdlib" :> 1 @@ "external" :> 2 @@ "k8s" :> 3 @@ "local" :> 4)

Rank(e) ==
    IF mode = "fixed" THEN BucketRank[RefBucket(e.Path, SegContainsToken)]
    ELSE FirstMatch(e.Path)

\* C4: in the returned list groups appear in rule priority order: for returned
\* entries a before b, rank(group(a)) <= rank(group(b)), so that the entries
\* of one group are contiguous.
C4_GroupOrder ==
    \A i \in TransformedBlocks :
        \A a, b \in 1..Len(Out(i)) :
            a < b => Rank(Out(i)[a]) <= Rank(Out(i)[b])

\* a block whose input had an entry of a later group before one of an earlier group
C4_Witness ==
    \E i \in TransformedBlocks :
        /\ \E a, b \in 1..Len(In(i)) : a < b /\ Rank(In(i)[a]) > Rank(In(i)[b])
        /\ \E a, b \in 1..Len(Out(i)) : Rank(Out(i)[a]) < Rank(Out(i)[b])

RECURSIVE ExpectedSlots(_, _)
ExpectedSlots(i, j) ==
    IF j > Len(Out(i)) THEN <<>>
    ELSE <<SpecPos(Out(i)[j]) - 1>>
         \o (IF j = Len(Out(i)) \/ blocks[i].groups[j + 1] # blocks[i].groups[j]
             THEN <<SpecEnd(Out(i)[j])>> ELSE <<>>)
         \o ExpectedSlots(i, j + 1)

NonEmptyGroups(i) == {blocks[i].groups[j] : j \in 1..Len(blocks[i].groups)}

\* C6: the slots recorded for a transformed block are one per returned entry
\* plus one blank slot after each non-empty group, the first slot being the
\* first entry's; an empty bucket or rule records no slot.  Hence their number
\* is (entries) + (non-empty groups).  Stated for both variants.
C6_Slots ==
    \A i \in TransformedBlocks :
        /\ Len(blocks[i].impLines) = Len(Out(i)) + Cardinality(NonEmptyGroups(i))
        /\ blocks[i].impLines = ExpectedSlots(i, 1)

\* C7: the line table handed to SetLines for a transformed block is strictly
\* increasing and within the file, so SetLines accepts it and the file's
\* line table is that table.
C7_LineTableAccepted ==
    \A i \in TransformedBlocks :
        \E lines \in {blocks[i].lines} :
            /\ \A n \in 1..(Len(lines) - 1) : lines[n] < lines[n + 1]
            /\ \A n \in 1..Len(lines) : lines[n] <= file.size
            /\ blocks[i].accepted
            /\ file.lines = lines

Ids(specs) == [j \in 1..Len(specs) |-> specs[j].id]

\* the block transformer applied once more to block i as it now stands
Reapplied(i) ==
    IF mode = "fixed" THEN sortDecl(file, decls[i])
    ELSE sortImportSpecs(file, decls[i].Specs,
                         [Start |-> DeclPos(decls[i]), End |-> DeclEnd(decls[i])])

\* C8: applying the block transformation to the entries it returned returns
\* the same entries in the same order with the same groups: T(T(x)) = T(x).
C8_Idempotent ==
    \A i \in TransformedBlocks :
        \E r \in {Reapplied(i)} :
            /\ ~r.panic
            /\ Ids(r.Specs) = Ids(Out(i))
            /\ r.groups = blocks[i].groups

\* a block the first application reordered, holding two entries of one path
C8_Witness ==
    \E i \in TransformedBlocks :
        /\ Ids(Out(i)) # Ids(In(i))
        /\ Len(Out(i)) = Len(In(i))
        /\ \E a, b \in 1..Len(Out(i)) : a # b /\ Out(i)[a].Path = Out(i)[b].Path

\* declaration i comes before the first declaration that is not an import
BeforeOthers(i) == \A k \in 1..i : parsed.decls[k].Tok = "import"

\* C9: the driver transforms exactly the parenthesised import blocks with more
\* than one entry that precede the first non-import declaration; every other
\* declaration keeps its entries and their spans, nothing at or after the first
\* non-import declaration is looked at, and a file without a qualifying block
\* keeps its line table.
C9_Untouched ==
    pc \in {"done", "panic"} =>
        /\ \A i \in 1..Len(decls) :
              /\ blocks[i].sorted <=> (Qualifies(parsed.decls[i]) /\ BeforeOthers(i))
              /\ blocks[i].visited <=> BeforeOthers(i)
              /\ ~blocks[i].sorted => decls[i] = parsed.decls[i]
        /\ (\A i \in 1..Len(decls) : ~blocks[i].sorted) => file = parsed.file

\* a file with an import without parentheses (skipped), a block of two entries
\* (transformed) and a var declaration (where the loop stopped)
C9_Witness ==
    /\ pc = "done"
    /\ Len(decls) = 3
    /\ parsed.decls[1].Lparen = 0 /\ blocks[1].visited /\ ~blocks[1].sorted
    /\ blocks[2].sorted /\ decls[2] # parsed.decls[2]
    /\ decls[3].Tok = "var" /\ ~blocks[3].visited

\* C10: a -r pattern that does not compile is reported by initRules before any
\* file is processed; it is not stored as a rule, and no block classification
\* fails on it.
C10_BadPatternReported ==
    /\ pc # "panic"
    /\ (mode = "regex" /\ pc # "start" /\ \E n \in 1..Len(orderRule) : orderRule[n] = BadRule)
          => /\ exitCode # 0
             /\ \A r \in 1..Len(rulePatterns) : ~rulePatterns[r].nil

\* the transformer wrote a new span into every returned entry of block i
\* (the parser leaves EndPos unset, the transformer sets it)
SpansRewritten(i) == \A j \in 1..Len(Out(i)) : Out(i)[j].EndPos # 0

\* C11: a block transformation is all-or-nothing: when the transformer has
\* returned, either every entry's span is rewritten and the file's line table
\* is the synthesized table, or the entries and the line table are as parsed.
C11_AllOrNothing ==
    \A i \in TransformedBlocks :
        \/ SpansRewritten(i) /\ file.lines = blocks[i].lines
        \/ Out(i) = In(i) /\ file.lines = parsed.file.lines

\* the outcome of sortImports on source l processed as the first file of a run
Alone(l) ==
    IF mode = "fixed" THEN sortImportsFixed(Acc0(ParseFile(l, 1)), 1)
    ELSE sortImportsRegex(Acc0(ParseFile(l, 1)), 1)

\* position p lies in file f
InFile(f, p) == f.base <= p /\ p <= f.base + f.size

\* the entry spans and the synthesized line table of every transformed block
\* are those of the same source processed alone
SameAsAlone ==
    pc = "done" =>
        \E a \in {Alone(src)} :
            \A i \in TransformedBlocks :
                /\ Out(i) = a.decls[i].Specs
                /\ blocks[i].lines = a.blocks[i].lines

\* every rewritten span lies in the file being processed
SpansInOwnFile ==
    \A i \in TransformedBlocks :
        \A j \in 1..Len(Out(i)) :
            InFile(file, SpecPos(Out(i)[j])) /\ InFile(file, SpecEnd(Out(i)[j]))

\* C12: no state survives from one file to the next: the spans and the line
\* table synthesized for a file are those it gets when processed alone as the
\* first file of a run, and every rewritten span is a position of that file,
\* never of a file processed before.
C12_NoStateAcrossFiles == SameAsAlone /\ SpansInOwnFile

====
